---------------------------- MODULE Spec2Model ----------------------------
(***************************************************************************)
(* ExtensionsDownloader (vs/platform/extensionManagement/node/             *)
(* extensionDownloader.ts): the VSIX download cache, its one-time clean-up  *)
(* at construction, and the downloadExtension / delete operations.          *)
(*                                                                          *)
(* File names are sequences of one-character strings, so that the regular   *)
(* expression, the lower-casing and the numeric version comparison are      *)
(* computed and not assumed.  A location is root/name with a single root,   *)
(* so a location is identified with its name.                               *)
(***************************************************************************)
EXTENDS Integers, Sequences, FiniteSets, TLC

\* ------------------------------------------------------------------ bounds
\* Largest number of files in the download directory at construction.
MaxChildren == 3
\* Number of calls (downloadExtension or delete) made on the downloader.
NumCallers == 2
\* The source fixes the cache size to 20 (line 36); the model ranges it over
\* 1..MaxCache so that "more extensions than the cache size" happens with
\* short listings.
MaxCache == 2

NULL == <<>>

\* ------------------------------------------------------------- characters
Digits == {"0", "1", "2", "3", "4", "5", "6", "7", "8", "9"}

DigitValue(c) ==
    CASE c = "0" -> 0 [] c = "1" -> 1 [] c = "2" -> 2 [] c = "3" -> 3
      [] c = "4" -> 4 [] c = "5" -> 5 [] c = "6" -> 6 [] c = "7" -> 7
      [] c = "8" -> 8 [] c = "9" -> 9

DigitChar(n) ==
    CASE n = 0 -> "0" [] n = 1 -> "1" [] n = 2 -> "2" [] n = 3 -> "3"
      [] n = 4 -> "4" [] n = 5 -> "5" [] n = 6 -> "6" [] n = 7 -> "7"
      [] n = 8 -> "8" [] n = 9 -> "9"

\* String.prototype.toLowerCase on one character of the model's alphabet.
LowerChar(c) ==
    CASE c = "A" -> "a" [] c = "B" -> "b" [] c = "C" -> "c" [] c = "D" -> "d"
      [] OTHER -> c

toLowerCase(s) == [i \in 1..Len(s) |-> LowerChar(s[i])]

\* -------------------------------------------------- ExtensionIdVersionRegex
\* /^([^.]+\..+)-(\d+\.\d+\.\d+)$/

\* [^.]+\..+ : one or more non-dots, a dot, one or more characters.
MatchesId(s) ==
    \E j \in 2..(Len(s) - 1) :
        /\ s[j] = "."
        /\ \A k \in 1..(j - 1) : s[k] # "."

DotPositions(s) == {i \in 1..Len(s) : s[i] = "."}

\* \d+\.\d+\.\d+ : three non-empty runs of digits separated by two dots.
MatchesVersion(s) ==
    /\ Cardinality(DotPositions(s)) = 2
    /\ \A i \in 1..Len(s) : s[i] \in Digits \cup {"."}
    /\ s[1] # "."
    /\ s[Len(s)] # "."
    /\ \A i \in 1..(Len(s) - 1) : ~(s[i] = "." /\ s[i + 1] = ".")

\* The positions of the dash that separates group 1 from group 2 in a match.
RegexSplits(name) ==
    {i \in 1..Len(name) :
        /\ name[i] = "-"
        /\ MatchesId(SubSeq(name, 1, i - 1))
        /\ Len(name) > i
        /\ MatchesVersion(SubSeq(name, i + 1, Len(name)))}

MaxOf(S) == CHOOSE x \in S : \A y \in S : y <= x

\* A parse that splits the name at its first dash instead of matching the
\* whole name against the regular expression.
parseAtFirstDash(name) ==
    LET dashes == {i \in 1..Len(name) : name[i] = "-"}
        first == CHOOSE i \in dashes : \A j \in dashes : i <= j
    IN  IF dashes = {} \/ ~MatchesVersion(SubSeq(name, first + 1, Len(name)))
        THEN NULL
        ELSE [id |-> SubSeq(name, 1, first - 1),
              version |-> SubSeq(name, first + 1, Len(name))]

\* parse(name): the identifier and the version of a file name, or NULL.
\* Group 1 is greedy: it extends to the last dash that lets group 2 match.
parse(name) ==
    IF RegexSplits(name) = {}
    THEN NULL
    ELSE LET i == MaxOf(RegexSplits(name))
         IN  [id |-> SubSeq(name, 1, i - 1),
              version |-> SubSeq(name, i + 1, Len(name))]

\* ExtensionIdentifierWithVersion.key(): "<id>-<version>".
key(id, version) == id \o <<"-">> \o version

\* ---------------------------------------------------------- semver.rcompare
RECURSIVE ToNumber(_)
ToNumber(s) ==
    IF s = <<>> THEN 0
    ELSE 10 * ToNumber(SubSeq(s, 1, Len(s) - 1)) + DigitValue(s[Len(s)])

MinOf(S) == CHOOSE x \in S : \A y \in S : x <= y

\* The numeric fields of a version string that matches \d+\.\d+\.\d+.
\* Versions of the model are canonical numerals (no leading zero), on which
\* semver's strict parse succeeds.
major(v) == ToNumber(SubSeq(v, 1, MinOf(DotPositions(v)) - 1))
minor(v) == ToNumber(SubSeq(v, MinOf(DotPositions(v)) + 1, MaxOf(DotPositions(v)) - 1))
patch(v) == ToNumber(SubSeq(v, MaxOf(DotPositions(v)) + 1, Len(v)))

compareIdentifiers(a, b) == IF a < b THEN -1 ELSE IF a > b THEN 1 ELSE 0

\* semver.compare(a, b): major, then minor, then patch.
compare(a, b) ==
    IF compareIdentifiers(major(a), major(b)) # 0
    THEN compareIdentifiers(major(a), major(b))
    ELSE IF compareIdentifiers(minor(a), minor(b)) # 0
         THEN compareIdentifiers(minor(a), minor(b))
         ELSE compareIdentifiers(patch(a), patch(b))

\* A comparison of the version strings as text: what a sort without semver
\* would do ("1.9.0" sorts above "1.10.0").
RECURSIVE compareText(_, _)
compareText(a, b) ==
    IF a = <<>> /\ b = <<>> THEN 0
    ELSE IF a = <<>> THEN -1
    ELSE IF b = <<>> THEN 1
    ELSE IF a[1] = b[1] THEN compareText(Tail(a), Tail(b))
    ELSE IF a[1] = "." THEN -1
    ELSE IF b[1] = "." THEN 1
    ELSE compareIdentifiers(DigitValue(a[1]), DigitValue(b[1]))

rcompareText(a, b) == compareText(b, a)

\* semver.rcompare(a, b) == compare(b, a): sorts in descending order.
rcompare(a, b) == compare(b, a)

\* ------------------------------------------------------------------ cleanUp
\* The file names of a listing that parse (all) and that do not (line 76).
isExtension(name) == parse(name) # NULL

allOf(children) == SelectSeq(children, isExtension)

\* Line 76 left out: nothing is deleted for not being an extension.
notAnExtensionKept(children) == <<>>

notAnExtension(children) == SelectSeq(children, LAMBDA n : ~isExtension(n))

\* The places of a list of parsed names at which an extension id is first seen.
firstOfGroup(all) ==
    {i \in 1..Len(all) : \A j \in 1..(i - 1) : parse(all[j]).id # parse(all[i]).id}

\* The g-th smallest member of a set of numbers.
nth(S, g) == CHOOSE i \in S : Cardinality({j \in S : j < i}) = g - 1

\* groupByExtension: the groups in the order of their first member, each
\* group in listing order.
groupByExtension(all) ==
    [g \in 1..Cardinality(firstOfGroup(all)) |->
        SelectSeq(all, LAMBDA e : parse(e).id = parse(all[nth(firstOfGroup(all), g)]).id)]

\* The comparator of line 82 puts p[i] before p[j]; equal elements keep
\* their order (the sort is stable).
sortsBefore(p, i, j) ==
    \/ rcompare(parse(p[i]).version, parse(p[j]).version) < 0
    \/ rcompare(parse(p[i]).version, parse(p[j]).version) = 0 /\ i < j

\* Array.prototype.sort with the comparator of line 82: the k-th element is
\* the one that k - 1 elements sort before.
sort(p) ==
    [k \in 1..Len(p) |->
        p[CHOOSE i \in 1..Len(p) :
              Cardinality({j \in 1..Len(p) : sortsBefore(p, j, i)}) = k - 1]]

RECURSIVE Flatten(_)
Flatten(ss) == IF ss = <<>> THEN <<>> ELSE ss[1] \o Flatten(Tail(ss))

\* p instead of p.slice(1) in line 83: the newest version is pushed too.
outdatedWithNewest(byExtension) ==
    Flatten([g \in 1..Len(byExtension) |-> sort(byExtension[g])])

\* Line 83 left out: the older versions of an extension are kept.
outdatedKept(byExtension) == <<>>

\* p.slice(1) of every sorted group, in group order (line 83).
outdated(byExtension) ==
    Flatten([g \in 1..Len(byExtension) |-> Tail(sort(byExtension[g]))])

\* p[0] of every sorted group, in group order (line 84).
distinctOf(byExtension) ==
    [g \in 1..Len(byExtension) |-> sort(byExtension[g])[1]]

Max0(n) == IF n > 0 THEN n ELSE 0

\* A retention that deletes the tail and keeps the head of the list.
excessTail(distinct, cacheSize) ==
    SubSeq(distinct, cacheSize + 1, Len(distinct))

\* A retention that is off by one: it keeps one extension less than the cache.
excessOffByOne(distinct, cacheSize) ==
    SubSeq(distinct, 1, Max0(Len(distinct) - cacheSize + 1))

\* distinct.slice(0, Math.max(0, distinct.length - this.cache)) (line 86).
excess(distinct, cacheSize) ==
    SubSeq(distinct, 1, Max0(Len(distinct) - cacheSize))

\* toDelete as line 87 finds it.
toDeleteOf(children, cacheSize) ==
    notAnExtension(children)
      \o outdated(groupByExtension(allOf(children)))
      \o excess(distinctOf(groupByExtension(allOf(children))), cacheSize)

\* ------------------------------------------------------------ the inputs
\* File names the download directory may hold at construction.
a_b_1_9_0 == <<"a", ".", "b", "-", "1", ".", "9", ".", "0">>
a_b_1_10_0 == <<"a", ".", "b", "-", "1", ".", "1", "0", ".", "0">>
c_d_2_0_0 == <<"c", ".", "d", "-", "2", ".", "0", ".", "0">>
\* no version, a version that is not numeric, no extension id
noVersion == <<"a", ".", "b">>
nonNumeric == <<"a", ".", "b", "-", "1", ".", "x", ".", "0">>
noId == <<"-", "1", ".", "0", ".", "0">>
e_f_1_0_0 == <<"e", ".", "f", "-", "1", ".", "0", ".", "0">>

Catalogue == {a_b_1_9_0, a_b_1_10_0, c_d_2_0_0, e_f_1_0_0, noVersion, nonNumeric, noId}

\* The gallery extensions callers ask for: identifier.id and version.
Extensions ==
    {[id |-> <<"A", ".", "b">>, version |-> <<"1", ".", "9", ".", "0">>],
     [id |-> <<"c", ".", "d">>, version |-> <<"2", ".", "0", ".", "0">>]}

\* The identifiers and versions of the extensions whose file names are
\* looked at alone: lower and upper case, dashes in the identifier, an
\* identifier that ends like a version, one without a dot and one without a
\* publisher; versions with one and two digits in a field.
ExtensionIds ==
    {<<"a", ".", "b">>,
     <<"A", ".", "b">>,
     <<"a", "-", "b", ".", "c">>,
     <<"a", ".", "b", "-", "1", ".", "0", ".", "0">>,
     <<"a", "b">>,
     <<".", "b">>}

Versions ==
    {<<"1", ".", "9", ".", "0">>,
     <<"1", ".", "1", "0", ".", "0">>,
     <<"0", ".", "0", ".", "1">>}

Identities == [id : ExtensionIds, version : Versions]

Procs == 1..NumCallers

\* generateUuid(): the k-th token; no two calls return the same one.
generateUuid(k) == <<"u", "-", DigitChar(k)>>

\* The orders in which resolve() may list a set of files.
Listings(S) ==
    {l \in [1..Cardinality(S) -> S] : \A i, j \in 1..Cardinality(S) : l[i] = l[j] => i = j}

\* ------------------------------------------------------------------ state
VARIABLES
    cache,           \* this.cache: 0 (caching disabled) or the cache size
    rootStat,        \* extensionsDownloadDir in the file service: "absent", "dir" or "file"
    files,           \* the names of the files in extensionsDownloadDir
    cpc,             \* where cleanUp() is: "none", "exists", "resolve", "deleting", "done"
    children,        \* folderStat.children, by name, once resolve() has returned
    toDelete,        \* the local toDelete of cleanUp
    dels,            \* the fileService.del calls of line 89: "pending", "ok" or "failed"
    cleanUpPromise,  \* "pending", "fulfilled" or "rejected"
    pc,              \* per call: "idle", "await", "exists", "fetch", "ret", "del", "returned", "failed"
    op,              \* per call: "none", "download" or "delete"
    arg,             \* per call: the extension of a download, the location of a delete
    loc,             \* per download: the location of line 43
    fetches,         \* per download: the calls of extensionGalleryService.download
    prior,           \* per download: the downloads of the same extension that had returned when it was called
    uuids            \* the number of generateUuid() calls so far

vars == <<cache, rootStat, files, cpc, children, toDelete, dels, cleanUpPromise,
          pc, op, arg, loc, fetches, prior, uuids>>

cleanUpVars == <<cpc, children, toDelete, dels, cleanUpPromise>>
callVars == <<pc, op, arg, loc, fetches, prior, uuids>>

InitCalls ==
    /\ pc = [p \in Procs |-> "idle"]
    /\ op = [p \in Procs |-> "none"]
    /\ arg = [p \in Procs |-> NULL]
    /\ loc = [p \in Procs |-> NULL]
    /\ fetches = [p \in Procs |-> 0]
    /\ prior = [p \in Procs |-> {}]
    /\ uuids = 0

\* The files at construction when calls are made on the downloader: an
\* outdated and a newest version of one extension and a file that is none.
StartFiles == {a_b_1_9_0, a_b_1_10_0, noVersion}

InitStore ==
    /\ rootStat \in {"absent", "dir", "file"}
    /\ files \in SUBSET StartFiles
    /\ rootStat # "dir" => files = {}

\* The directory at construction when the clean-up is looked at alone.
InitStoreCleanUp ==
    /\ rootStat \in {"absent", "dir", "file"}
    /\ files \in {S \in SUBSET Catalogue : Cardinality(S) <= MaxChildren}
    /\ rootStat # "dir" => files = {}

\* Line 25 left out: without a cache the promise is never settled.
neverResolved == "pending"

\* Promise.resolve() (line 25): the initial value of cleanUpPromise, which
\* the constructor replaces only when extensionsDownloadPath is given.
PromiseResolve == "fulfilled"

\* The constructor (lines 23-39): without extensionsDownloadPath the directory
\* is tmpdir(), cache is 0 and cleanUpPromise is Promise.resolve(); with it,
\* cache is the cache size and cleanUp() has been called and awaits exists().
Init ==
    /\ InitStore
    /\ InitCalls
    /\ cache \in 0..MaxCache
    /\ cache = 0 => rootStat = "dir"
    /\ cpc = IF cache = 0 THEN "none" ELSE "exists"
    /\ cleanUpPromise = IF cache = 0 THEN PromiseResolve ELSE "pending"
    /\ children = <<>>
    /\ toDelete = <<>>
    /\ dels = <<>>

\* The downloader constructed with extensionsDownloadPath, and no call made.
InitCleanUp ==
    /\ InitStoreCleanUp
    /\ InitCalls
    /\ cache \in 1..MaxCache
    /\ cpc = "exists"
    /\ cleanUpPromise = "pending"
    /\ children = <<>>
    /\ toDelete = <<>>
    /\ dels = <<>>

\* ---------------------------------------------------------- cleanUp (61-95)
\* Without the try/catch a throw in the body rejects the promise.
uncaught == "rejected"

\* What the promise of the async function settles to when its body throws:
\* the catch of line 92 logs the error and the function returns normally.
caught == "fulfilled"

\* Lines 63-66 left out: the directory is taken to exist.
rootAssumed(stat) == TRUE

\* await this.fileService.exists(this.extensionsDownloadDir) (line 63)
rootExists(stat) == stat # "absent"

\* exists() has returned (line 63): false ends the pass with a trace message,
\* a failure is caught at line 92.
cleanUp_exists ==
    /\ cpc = "exists"
    /\ \/ /\ ~rootExists(rootStat)
          /\ cpc' = "done"
          /\ cleanUpPromise' = "fulfilled"
       \/ /\ rootExists(rootStat)
          /\ cpc' = "resolve"
          /\ UNCHANGED cleanUpPromise
       \/ /\ cpc' = "done"
          /\ cleanUpPromise' = caught
    /\ UNCHANGED <<cache, rootStat, files, children, toDelete, dels>>
    /\ UNCHANGED callVars

\* resolve() has returned (line 67): it failed, which is caught at line 92;
\* or it gave no children; or it gave children, and lines 69-90 run in one
\* turn: toDelete is filled and one del() is called for each of its entries.
cleanUp_resolve ==
    /\ cpc = "resolve"
    /\ \/ /\ cpc' = "done"
          /\ cleanUpPromise' = caught
          /\ UNCHANGED <<children, toDelete, dels>>
       \/ /\ rootStat = "file"
          /\ cpc' = "done"
          /\ cleanUpPromise' = "fulfilled"
          /\ UNCHANGED <<children, toDelete, dels>>
       \/ /\ rootStat = "dir"
          /\ \E l \in Listings(files) :
                /\ children' = l
                /\ toDelete' = toDeleteOf(l, cache)
                /\ dels' = [i \in 1..Len(toDeleteOf(l, cache)) |-> "pending"]
          /\ cpc' = "deleting"
          /\ UNCHANGED cleanUpPromise
    /\ UNCHANGED <<cache, rootStat, files>>
    /\ UNCHANGED callVars

\* One fileService.del of line 89 finishes: it removes the file, or it fails
\* (the file is gone or cannot be removed) and leaves the directory as it is.
del_finishes(i) ==
    /\ i \in 1..Len(dels)
    /\ dels[i] = "pending"
    /\ \/ /\ toDelete[i] \in files
          /\ files' = files \ {toDelete[i]}
          /\ dels' = [dels EXCEPT ![i] = "ok"]
       \/ /\ dels' = [dels EXCEPT ![i] = "failed"]
          /\ UNCHANGED files
    /\ UNCHANGED <<cache, rootStat, cpc, children, toDelete, cleanUpPromise>>
    /\ UNCHANGED callVars

\* Promise.all waits for every promise, like a fan-in that collects all results.
allSettled(ds) == \A i \in 1..Len(ds) : ds[i] # "pending"

\* Promise.all(...) of line 87 settles: fulfilled once every del is, rejected
\* as soon as one del is rejected.
PromiseAll(ds) ==
    \/ \A i \in 1..Len(ds) : ds[i] = "ok"
    \/ \E i \in 1..Len(ds) : ds[i] = "failed"

\* The await of line 87 returns or throws; a throw is caught at line 92.
cleanUp_awaitAll ==
    /\ cpc = "deleting"
    /\ PromiseAll(dels)
    /\ cpc' = "done"
    /\ cleanUpPromise' = IF \A i \in 1..Len(dels) : dels[i] = "ok" THEN "fulfilled" ELSE caught
    /\ UNCHANGED <<cache, rootStat, files, children, toDelete, dels>>
    /\ UNCHANGED callVars

\* ------------------------------------------------- downloadExtension (41-46)
\* A getName that serialises the extension in both modes.
getNameKeyOnly(extension, k) ==
    toLowerCase(key(extension.id, extension.version))

\* getName (97-99): the lower-cased key when caching, a fresh uuid otherwise;
\* k is the number of uuids generated before.
getName(extension, k) ==
    IF cache # 0
    THEN toLowerCase(key(extension.id, extension.version))
    ELSE generateUuid(k + 1)

\* Calls are told apart only by their number: call p + 1 is made after call p.
MayStart(p) ==
    /\ pc[p] = "idle"
    /\ p > 1 => pc[p - 1] # "idle"

returnedDownloads(extension) ==
    {q \in Procs : op[q] = "download" /\ pc[q] = "returned" /\ arg[q] = extension}

\* downloadExtension is called and reaches the await of line 42.
downloadExtension(p, extension) ==
    /\ MayStart(p)
    /\ pc' = [pc EXCEPT ![p] = "await"]
    /\ op' = [op EXCEPT ![p] = "download"]
    /\ arg' = [arg EXCEPT ![p] = extension]
    /\ prior' = [prior EXCEPT ![p] = returnedDownloads(extension)]
    /\ UNCHANGED <<loc, fetches, uuids>>
    /\ UNCHANGED <<cache, rootStat, files>>
    /\ UNCHANGED cleanUpVars

\* A downloadExtension that does not wait for cleanUpPromise.
settledOrNot(promise) == TRUE

\* await this.cleanUpPromise continues once the promise is settled.
settled(promise) == promise # "pending"

\* Line 42 returns; lines 43-44 compute the location and call download(),
\* which calls exists() (line 56). A rejected promise would throw here.
downloadExtension_await(p) ==
    /\ pc[p] = "await"
    /\ settled(cleanUpPromise)
    /\ IF cleanUpPromise = "rejected"
       THEN /\ pc' = [pc EXCEPT ![p] = "failed"]
            /\ UNCHANGED <<loc, uuids>>
       ELSE /\ pc' = [pc EXCEPT ![p] = "exists"]
            /\ loc' = [loc EXCEPT ![p] = getName(arg[p], uuids)]
            /\ uuids' = IF cache # 0 THEN uuids ELSE uuids + 1
    /\ UNCHANGED <<op, arg, fetches, prior>>
    /\ UNCHANGED <<cache, rootStat, files>>
    /\ UNCHANGED cleanUpVars

\* A download that catches a failure of exists or of the gallery service and
\* goes on to return the location.
download_swallows == "ret"

\* How the call ends when exists (line 56) or the gallery service (line 57)
\* throws: neither download nor downloadExtension has a try/catch, so the
\* promise of downloadExtension is rejected and line 45 is not reached.
download_throws == "failed"

\* A download that skips the gallery service when another call is already
\* downloading to the same location.
needsDownloadUnlessInFlight(location) ==
    /\ location \notin files
    /\ ~\E q \in Procs : pc[q] = "fetch" /\ loc[q] = location

\* !await this.fileService.exists(location) (line 56)
needsDownload(location) == location \notin files

\* exists() has returned (line 56): the file is there and download() returns,
\* or it is not and the gallery service is called (line 57); or exists() fails.
download_exists(p) ==
    /\ pc[p] = "exists"
    /\ \/ /\ needsDownload(loc[p])
          /\ pc' = [pc EXCEPT ![p] = "fetch"]
          /\ fetches' = [fetches EXCEPT ![p] = @ + 1]
       \/ /\ ~needsDownload(loc[p])
          /\ pc' = [pc EXCEPT ![p] = "ret"]
          /\ UNCHANGED fetches
       \/ /\ pc' = [pc EXCEPT ![p] = download_throws]
          /\ UNCHANGED fetches
    /\ UNCHANGED <<op, arg, loc, prior, uuids>>
    /\ UNCHANGED <<cache, rootStat, files>>
    /\ UNCHANGED cleanUpVars

\* extensionGalleryService.download has returned (line 57): the file exists
\* at the location, or the download failed.
download_fetched(p) ==
    /\ pc[p] = "fetch"
    /\ \/ /\ rootStat # "file"
          /\ rootStat' = "dir"
          /\ files' = files \cup {loc[p]}
          /\ pc' = [pc EXCEPT ![p] = "ret"]
       \/ /\ pc' = [pc EXCEPT ![p] = download_throws]
          /\ UNCHANGED <<rootStat, files>>
    /\ UNCHANGED <<op, arg, loc, fetches, prior, uuids>>
    /\ UNCHANGED cache
    /\ UNCHANGED cleanUpVars

\* download() has returned: downloadExtension returns the location (line 45).
downloadExtension_return(p) ==
    /\ pc[p] = "ret"
    /\ pc' = [pc EXCEPT ![p] = "returned"]
    /\ UNCHANGED <<op, arg, loc, fetches, prior, uuids>>
    /\ UNCHANGED <<cache, rootStat, files>>
    /\ UNCHANGED cleanUpVars

\* ------------------------------------------------------------ delete (48-53)
\* The locations callers pass to delete: a file of the directory or the
\* location of an earlier download.
Locations ==
    files \cup {loc[q] : q \in {r \in Procs : op[r] = "download" /\ pc[r] = "returned"}}

\* A delete that deletes when caching is enabled.
deletesImmediatelyInverted == cache # 0

\* if (!this.cache) (line 50)
deletesImmediately == cache = 0

\* delete is called: fileService.del is called when caching is disabled,
\* and nothing happens otherwise.
delete(p, location) ==
    /\ MayStart(p)
    /\ op' = [op EXCEPT ![p] = "delete"]
    /\ arg' = [arg EXCEPT ![p] = location]
    /\ pc' = [pc EXCEPT ![p] = IF deletesImmediately THEN "del" ELSE "returned"]
    /\ UNCHANGED <<loc, fetches, prior, uuids>>
    /\ UNCHANGED <<cache, rootStat, files>>
    /\ UNCHANGED cleanUpVars

\* A delete that catches the failure of del and returns normally.
delete_swallows == "returned"

\* How the call ends when the del of line 51 throws: delete has no try/catch
\* around the await, so its promise is rejected with that failure.
delete_throws == "failed"

\* fileService.del of line 51 has returned or failed.
delete_del(p) ==
    /\ pc[p] = "del"
    /\ \/ /\ arg[p] \in files
          /\ files' = files \ {arg[p]}
          /\ pc' = [pc EXCEPT ![p] = "returned"]
       \/ /\ pc' = [pc EXCEPT ![p] = delete_throws]
          /\ UNCHANGED files
    /\ UNCHANGED <<op, arg, loc, fetches, prior, uuids>>
    /\ UNCHANGED <<cache, rootStat>>
    /\ UNCHANGED cleanUpVars

\* ------------------------------------------------------------ specification
cleanUp ==
    \/ cleanUp_exists
    \/ cleanUp_resolve
    \/ \E i \in 1..Len(dels) : del_finishes(i)
    \/ cleanUp_awaitAll

Next ==
    \/ cleanUp
    \/ \E p \in Procs, e \in Extensions : downloadExtension(p, e)
    \/ \E p \in Procs : downloadExtension_await(p)
    \/ \E p \in Procs : download_exists(p)
    \/ \E p \in Procs : download_fetched(p)
    \/ \E p \in Procs : downloadExtension_return(p)
    \/ \E p \in Procs, l \in Locations : delete(p, l)
    \/ \E p \in Procs : delete_del(p)

Spec == Init /\ [][Next]_vars

\* The clean-up of a constructed downloader on which no call is made.
SpecCleanUp == InitCleanUp /\ [][cleanUp]_vars

\* Every file service call returns or fails, and the event loop runs every
\* continuation that is ready.
Fairness ==
    /\ WF_vars(cleanUp_exists)
    /\ WF_vars(cleanUp_resolve)
    /\ WF_vars(\E i \in 1..Len(dels) : del_finishes(i))
    /\ WF_vars(cleanUp_awaitAll)
    /\ \A p \in Procs : WF_vars(downloadExtension_await(p))

\* The downloader constructed with extensionsDownloadPath, its clean-up and
\* the downloadExtension calls up to the point where they have waited for it.
InitDownloads == Init /\ cache # 0

startup ==
    \/ cleanUp
    \/ \E p \in Procs, e \in Extensions : downloadExtension(p, e)
    \/ \E p \in Procs : downloadExtension_await(p)

LiveSpec == InitDownloads /\ [][startup]_vars /\ Fairness

\* The file names: the clean-up and one downloadExtension call, made with
\* any of the identities.
oneDownload ==
    \/ cleanUp
    \/ \E e \in Identities : downloadExtension(1, e)
    \/ \E p \in Procs : downloadExtension_await(p)
    \/ \E p \in Procs : download_exists(p)
    \/ \E p \in Procs : download_fetched(p)
    \/ \E p \in Procs : downloadExtension_return(p)

SpecNames == Init /\ [][oneDownload]_vars

\* ================================================================== claims
Range(q) == {q[i] : i \in 1..Len(q)}

isDownload(p) == op[p] = "download"

pastTheGate(p) == pc[p] \in {"exists", "fetch", "ret", "returned"}

\* C1: with caching enabled, no downloadExtension call has checked the
\* existence of its file, called the gallery service or returned a location
\* unless cleanUp has finished and cleanUpPromise is fulfilled.
C1_DownloadsWaitForCleanUp ==
    cache # 0 =>
        \A p \in Procs :
            (isDownload(p) /\ (pastTheGate(p) \/ fetches[p] > 0 \/ loc[p] # NULL))
                => (cleanUpPromise = "fulfilled" /\ cpc = "done")

\* C1 witness: two callers, one back from its download and one past the
\* gate, after a clean-up that deleted files.
C1_Witness ==
    /\ cache # 0
    /\ Len(dels) > 0
    /\ \E p, q \in Procs :
        /\ p # q
        /\ isDownload(p) /\ pc[p] = "returned"
        /\ isDownload(q) /\ pastTheGate(q)

noDeleteCallOn(location) ==
    \A q \in Procs : ~(op[q] = "delete" /\ arg[q] = location)

\* C2: when downloadExtension returns a location on which delete was not
\* called, the file exists at that location at the moment of the return.
C2_ReturnedLocationExists ==
    [][\A p \in Procs :
          (isDownload(p) /\ pc[p] = "ret" /\ pc'[p] = "returned" /\ noDeleteCallOn(loc[p]))
              => loc[p] \in files']_vars

\* C3: cleanUp completes only after every del it called has finished, and
\* it has called del for every location it marked.
C3_PassWaitsForAllDeletions ==
    /\ cpc \in {"deleting", "done"} => Len(dels) = Len(toDelete)
    /\ cleanUpPromise = "fulfilled" => allSettled(dels)

\* ------------------------------------------------ the listing, as the claims
\* ----------------------------------------------- speak of it (C4, C5, C6)
marked == cpc \in {"deleting", "done"} /\ children # <<>>

\* What the names of the catalogue parse to, and the numeric fields of
\* their versions.
parsed == [n \in Catalogue |-> parse(n)]

fields ==
    [n \in {m \in Catalogue : parse(m) # NULL} |->
        <<major(parse(n).version), minor(parse(n).version), patch(parse(n).version)>>]

valid(children_) == {n \in Range(children_) : parsed[n] # NULL}

idOf(n) == parsed[n].id

\* m has a lower version than n: major, then minor, then patch, as numbers.
lowerVersion(m, n) ==
    \/ fields[m][1] < fields[n][1]
    \/ fields[m][1] = fields[n][1] /\ fields[m][2] < fields[n][2]
    \/ fields[m][1] = fields[n][1] /\ fields[m][2] = fields[n][2] /\ fields[m][3] < fields[n][3]

\* n is the entry with the highest version of its group.
newest(n, children_) ==
    /\ n \in valid(children_)
    /\ \A m \in valid(children_) :
          (idOf(m) = idOf(n) /\ m # n) => lowerVersion(m, n)

representatives(children_) == {n \in valid(children_) : newest(n, children_)}

\* The place in the listing at which the group of n was first sighted.
firstSighting(n, children_) ==
    MinOf({i \in 1..Len(children_) :
              parsed[children_[i]] # NULL /\ idOf(children_[i]) = idOf(n)})

\* The number of representatives whose group was sighted before the group of n.
rank(n, children_) ==
    Cardinality({m \in representatives(children_) :
                    firstSighting(m, children_) < firstSighting(n, children_)})

\* C4 as claimed: the first cache representatives, in the order in which
\* their groups were first sighted, are kept and every later one is marked;
\* with at most cache representatives none is marked.
C4_KeepsFirstRepresentatives ==
    marked =>
        \A n \in representatives(children) :
            n \in Range(toDelete) <=> rank(n, children) >= cache

\* C4 as amended: the last cache representatives, in the order in which
\* their groups were first sighted, are kept and every earlier one is marked;
\* with at most cache representatives none is marked.
C4_KeepsLastRepresentatives ==
    marked =>
        \A n \in representatives(children) :
            n \in Range(toDelete)
                <=> rank(n, children) < Cardinality(representatives(children)) - cache

\* C4 witness: A (1.9.0, 1.10.0) and C (2.0.0) with a cache of 1, A sighted
\* first: C@2.0.0 survives and both versions of A are marked.
C4_Witness ==
    /\ marked
    /\ cache = 1
    /\ Range(children) = {a_b_1_9_0, a_b_1_10_0, c_d_2_0_0}
    /\ firstSighting(a_b_1_10_0, children) < firstSighting(c_d_2_0_0, children)
    /\ Range(toDelete) = {a_b_1_9_0, a_b_1_10_0}
    /\ allSettled(dels)
    /\ files = {c_d_2_0_0}

\* C5: in every group, every entry but the one with the highest version
\* (compared as numbers: major, minor, patch) is marked, whatever the cache
\* size; the highest one is marked only when the representatives exceed the
\* cache size.
C5_OutdatedVersionsMarked ==
    marked =>
        /\ \A n \in valid(children) :
              ~newest(n, children) => n \in Range(toDelete)
        /\ \A n \in representatives(children) :
              n \in Range(toDelete) => Cardinality(representatives(children)) > cache

\* C5 witness: 1.9.0 and 1.10.0 of one extension are listed, with a cache
\* that has room for both: 1.9.0 is marked and 1.10.0 is not.
C5_Witness ==
    /\ marked
    /\ cache = MaxCache
    /\ {a_b_1_9_0, a_b_1_10_0} \subseteq Range(children)
    /\ a_b_1_9_0 \in Range(toDelete)
    /\ a_b_1_10_0 \notin Range(toDelete)

\* C6: every listed name that does not parse is marked, whatever the cache
\* size, and does not count towards the cache size: the number of marked
\* representatives is the number of extension ids in excess of the cache size.
C6_UnparsedNamesMarked ==
    marked =>
        /\ \A n \in Range(children) : parsed[n] = NULL => n \in Range(toDelete)
        /\ Cardinality(representatives(children) \cap Range(toDelete))
              = Max0(Cardinality({idOf(n) : n \in valid(children)}) - cache)

\* C6 witness: three names that do not parse (no version, a version that is
\* not numeric, no id) are listed and all marked.
C6_Witness ==
    /\ marked
    /\ Range(children) = {noVersion, nonNumeric, noId}
    /\ Range(toDelete) = {noVersion, nonNumeric, noId}

\* C7: cleanUp never fails: whatever fails in it (exists, resolve, a del),
\* cleanUpPromise is fulfilled, and every downloadExtension call that waits
\* for it goes on to compute its location and check its existence.
C7_WaitingDownloadsProceed ==
    \A p \in Procs : (pc[p] = "await") ~> (pc[p] = "exists" /\ cleanUpPromise = "fulfilled")

\* C7 witness: a del of the clean-up failed, and a download that was called
\* before the clean-up finished has waited for it and gone on.
C7_Witness ==
    /\ cache # 0
    /\ \E i \in 1..Len(dels) : dels[i] = "failed"
    /\ \E p, q \in Procs :
        /\ isDownload(p) /\ pc[p] = "exists"
        /\ isDownload(q) /\ pc[q] = "await"

\* C8: with caching enabled, a download of an extension called after a
\* download of the same extension has returned returns the same location,
\* finds the file and does not call the gallery service, so that both calls
\* together call it at most once.
C8_SecondDownloadHitsCache ==
    cache # 0 =>
        \A p \in Procs : \A q \in prior[p] :
            /\ fetches[p] = 0
            /\ fetches[p] + fetches[q] <= 1
            /\ pc[p] = "returned" => loc[p] = loc[q]

\* C9: with caching enabled, a call of delete returns at once, calls no del
\* of the file service and leaves the directory as it is.
C9_DeleteIsNoOpWhenCaching ==
    [][\A p \in Procs :
          (cache # 0 /\ op[p] = "none" /\ op'[p] = "delete")
              => (pc'[p] = "returned" /\ files' = files /\ rootStat' = rootStat)]_vars

\* C9 witness: with caching enabled, delete was called on a downloaded file
\* and has returned, and the file is there.
C9_Witness ==
    /\ cache # 0
    /\ \E p, q \in Procs :
        /\ op[p] = "delete" /\ pc[p] = "returned"
        /\ isDownload(q) /\ pc[q] = "returned" /\ fetches[q] = 1
        /\ arg[p] = loc[q]
        /\ arg[p] \in files

\* C10: with caching disabled, no two downloadExtension calls have the same
\* location, also for the same extension, and every call that returns has
\* called the gallery service exactly once.
C10_DisabledNeverReuses ==
    cache = 0 =>
        \A p \in Procs :
            isDownload(p) =>
                /\ \A q \in Procs :
                      (q # p /\ isDownload(q) /\ loc[p] # NULL /\ loc[q] # NULL)
                          => loc[p] # loc[q]
                /\ loc[p] # NULL => loc[p] \notin StartFiles
                /\ fetches[p] <= 1
                /\ pc[p] \in {"ret", "returned"} => fetches[p] = 1

\* C10 witness: with caching disabled, two downloads of the same extension
\* have returned.
C10_Witness ==
    /\ cache = 0
    /\ \E p, q \in Procs :
        /\ p # q
        /\ isDownload(p) /\ pc[p] = "returned"
        /\ isDownload(q) /\ pc[q] = "returned"
        /\ arg[p] = arg[q]
        /\ q \in prior[p]

\* C11: with caching disabled, a call of delete calls del of the file
\* service on its location once and returns only when that del has returned,
\* with the location gone; when the del fails the call fails and the
\* directory is as the file service left it.
C11_DisabledDeleteDeletesOnce ==
    [][\A p \in Procs :
          cache = 0 =>
              /\ (op[p] = "none" /\ op'[p] = "delete") => pc'[p] = "del"
              /\ (op[p] = "delete" /\ pc[p] # "returned" /\ pc'[p] = "returned")
                    => (pc[p] = "del" /\ arg[p] \in files /\ arg[p] \notin files')
              /\ (op[p] = "delete" /\ pc[p] # "failed" /\ pc'[p] = "failed")
                    => (pc[p] = "del" /\ files' = files)
              /\ (op[p] = "delete" /\ pc[p] # "del") => pc'[p] # "del"]_vars

\* C11 witness: with caching disabled, one delete has returned with its
\* location gone and another has failed.
C11_Witness ==
    /\ cache = 0
    /\ \E p, q \in Procs :
        /\ op[p] = "delete" /\ pc[p] = "returned" /\ arg[p] \notin files
        /\ op[q] = "delete" /\ pc[q] = "failed"

\* C12: a downloadExtension call goes on to return its location only when
\* exists has returned and found the file or the gallery service has returned
\* with the file written; a call whose exists or gallery service call fails
\* ends in failure and stays so, without a location returned. Within one call
\* the gallery service is called at most once and no del is called: no step of
\* the call removes a file.
C12_FailedDownloadReturnsNothing ==
    [][\A p \in Procs :
          isDownload(p) =>
              /\ (pc[p] = "exists" /\ pc'[p] = "ret") => loc[p] \in files
              /\ (pc[p] = "fetch" /\ pc'[p] = "ret") => loc[p] \in files'
              /\ (pc[p] # "ret" /\ pc'[p] = "ret") => pc[p] \in {"exists", "fetch"}
              /\ (pc[p] # "failed" /\ pc'[p] = "failed")
                    => (pc[p] \in {"exists", "fetch"} /\ files' = files)
              /\ pc[p] = "failed" => (pc'[p] = "failed" /\ fetches'[p] = fetches[p])
              /\ pc'[p] = "returned" => pc[p] \in {"ret", "returned"}
              /\ fetches'[p] <= 1
              /\ pc'[p] # "del"
              /\ pc'[p] # pc[p] => files \subseteq files']_vars

\* C12 witness: one download has failed at exists, without a call of the
\* gallery service, and another has failed in the gallery service.
C12_Witness ==
    \E p, q \in Procs :
        /\ isDownload(p) /\ pc[p] = "failed" /\ fetches[p] = 0
        /\ isDownload(q) /\ pc[q] = "failed" /\ fetches[q] = 1
        /\ loc[q] \notin files

\* ------------------------------------------ the directory after the clean-up
allOk(ds) == \A i \in 1..Len(ds) : ds[i] = "ok"

\* The directory holds at most cache files, each has a name that parses, no
\* two are of the same extension, and each is the highest version that the
\* listing had of its extension.
pruned(S, children_) ==
    /\ Cardinality(S) <= cache
    /\ \A n \in S : parsed[n] # NULL
    /\ \A m, n \in S : idOf(m) = idOf(n) => m = n
    /\ \A n \in S : newest(n, children_)

\* C13 as claimed: after a clean-up in which the directory exists and every
\* del that was called succeeded, the directory is pruned.
C13_PrunedWhenRootExists ==
    (cpc = "done" /\ rootStat = "dir" /\ allOk(dels)) => pruned(files, children)

\* C13 as amended: after a clean-up in which exists and resolve returned, the
\* directory was listed and every del that was called succeeded, the
\* directory is pruned.
C13_PrunedAfterListing ==
    [][(cpc = "deleting" /\ cpc' = "done" /\ allOk(dels)) => pruned(files', children')]_vars

\* C13 witness: a file that is no extension and two versions of one extension
\* were listed, both dels succeeded and the newer version is what is left.
C13_Witness ==
    /\ cpc = "done"
    /\ Range(children) = {noVersion, a_b_1_9_0, a_b_1_10_0}
    /\ Len(dels) = 2
    /\ allOk(dels)
    /\ files = {a_b_1_10_0}

\* A pruned directory: every name parses, no two names are of the same
\* extension and there are at most cache names.
prunedDirectory(S) ==
    /\ \A n \in S : parsed[n] # NULL
    /\ \A m, n \in S : idOf(m) = idOf(n) => m = n
    /\ Cardinality(S) <= cache

\* C14: the clean-up of a pruned directory marks nothing, calls no del and
\* leaves every file in place; and the directory that a clean-up leaves when
\* all its dels succeeded is one on which lines 69-86, in whatever order it
\* is listed, mark nothing.
C14_PrunedDirectoryUntouched ==
    [][/\ (cpc \in {"exists", "resolve"} /\ prunedDirectory(files))
            => (toDelete' = <<>> /\ dels' = <<>> /\ files' = files)
       /\ dels = <<>> => files' = files
       /\ (cpc = "deleting" /\ cpc' = "done" /\ allOk(dels))
            => \A l \in Listings(files') : toDeleteOf(l, cache) = <<>>]_vars

\* C14 witness: two extensions, one version each, with a cache of two: the
\* clean-up is done, has marked nothing and both files are there.
C14_Witness ==
    /\ cpc = "done"
    /\ cleanUpPromise = "fulfilled"
    /\ cache = 2
    /\ Range(children) = {a_b_1_10_0, c_d_2_0_0}
    /\ toDelete = <<>>
    /\ files = {a_b_1_10_0, c_d_2_0_0}

\* ------------------------------------------------------- the file names
\* The identifier has the form publisher.name: its first dot is neither its
\* first nor its last character.
publisherDotName(id) ==
    /\ DotPositions(id) # {}
    /\ MinOf(DotPositions(id)) > 1
    /\ MinOf(DotPositions(id)) < Len(id)

\* The identifier has no dash that is followed by a digit.
noDashDigit(id) ==
    \A i \in 1..(Len(id) - 1) : ~(id[i] = "-" /\ id[i + 1] \in Digits)

lowerCase(id) == \A i \in 1..Len(id) : id[i] \notin {"A", "B", "C", "D"}

\* C15 as claimed: the file name of a download, when caching is enabled and
\* the identifier has no dash followed by a digit, parses to the identifier
\* and the version of the extension that was asked for.
C15_NameParsesToIdentity ==
    \A p \in Procs :
        (isDownload(p) /\ cache # 0 /\ loc[p] # NULL /\ noDashDigit(arg[p].id))
            => parse(loc[p]) = arg[p]

\* C15 as amended: "<id>-<version>" parses to the id and the version when
\* the id has the form publisher.name, also when it has dashes followed by
\* digits, and to nothing otherwise; the file name of a download is that
\* text in lower case, so that it parses to the lower-cased id and the
\* version, which is the extension asked for when its id is in lower case;
\* the name of a download without caching parses to nothing; and every file
\* name of the directory parses to nothing or to an id and a version of
\* which it is the "<id>-<version>".
C15_NameParsesToLowerCasedIdentity ==
    /\ \A p \in Procs :
          (isDownload(p) /\ loc[p] # NULL) =>
              /\ parse(key(arg[p].id, arg[p].version))
                    = IF publisherDotName(arg[p].id) THEN arg[p] ELSE NULL
              /\ parse(loc[p])
                    = IF cache # 0 /\ publisherDotName(arg[p].id)
                      THEN [id |-> toLowerCase(arg[p].id), version |-> arg[p].version]
                      ELSE NULL
              /\ (cache # 0 /\ publisherDotName(arg[p].id) /\ lowerCase(arg[p].id))
                    => parse(loc[p]) = arg[p]
    /\ \A n \in files :
          parse(n) # NULL => key(parse(n).id, parse(n).version) = n

\* C15 witness: the download of an extension whose id has a dash and ends
\* like a version has written its file, next to a file that is no extension.
C15_Witness ==
    /\ cache # 0
    /\ isDownload(1)
    /\ pc[1] = "returned"
    /\ arg[1].id = <<"a", ".", "b", "-", "1", ".", "0", ".", "0">>
    /\ arg[1].version = <<"1", ".", "1", "0", ".", "0">>
    /\ loc[1] \in files
    /\ noVersion \in files

\* C16: cleanUp is started once, by the constructor, and by no call: it
\* only moves forward and no step of a call moves it; cleanUpPromise, once
\* settled, stays as it is; and with caching enabled no file is removed once
\* cleanUpPromise is fulfilled, so that a file written by a download stays.
C16_NoDeletionAfterCleanUp ==
    [][/\ cpc' # cpc =>
             /\ <<cpc, cpc'>> \in {<<"exists", "resolve">>, <<"exists", "done">>,
                                   <<"resolve", "deleting">>, <<"resolve", "done">>,
                                   <<"deleting", "done">>}
             /\ pc' = pc
       /\ settled(cleanUpPromise) => cleanUpPromise' = cleanUpPromise
       /\ (cache # 0 /\ cleanUpPromise = "fulfilled") => files \subseteq files']_vars

\* C17: with caching enabled, two downloadExtension calls for the same
\* extension have the same location; and a call whose exists finds no file
\* calls the gallery service although the other call is already downloading
\* to that location: the calls are not deduplicated.
C17_SameLocationNoDeduplication ==
    [][cache # 0 =>
          \A p, q \in Procs :
              (p # q /\ isDownload(p) /\ isDownload(q) /\ arg[p] = arg[q]) =>
                  /\ (loc'[p] # NULL /\ loc'[q] # NULL) => loc'[p] = loc'[q]
                  /\ (pc[p] = "exists" /\ pc[q] = "fetch" /\ loc[p] \notin files
                        /\ pc'[p] # pc[p])
                        => (pc'[p] \in {"fetch", "failed"} /\ loc'[p] = loc[q])]_vars

\* C17 witness: two calls for the same extension that overlapped (neither
\* had returned when the other was made) both found no file, both called the
\* gallery service and both returned the same location.
C17_Witness ==
    /\ cache # 0
    /\ \E p, q \in Procs :
        /\ p # q
        /\ isDownload(p) /\ isDownload(q)
        /\ arg[p] = arg[q]
        /\ p \notin prior[q] /\ q \notin prior[p]
        /\ fetches[p] = 1 /\ fetches[q] = 1
        /\ pc[p] = "returned" /\ pc[q] = "returned"
        /\ loc[p] = loc[q]

\* C18: with caching disabled cleanUp never runs: cleanUpPromise is
\* fulfilled from the construction on, the directory is never listed and
\* nothing is marked; a file leaves the directory only in the del of a
\* delete call on its location, so every other file stays.
C18_DisabledNeverCleansUp ==
    [][cache = 0 =>
          /\ cleanUpPromise = "fulfilled" /\ cleanUpPromise' = "fulfilled"
          /\ cpc = "none" /\ cpc' = "none"
          /\ children' = <<>> /\ toDelete' = <<>> /\ dels' = <<>>
          /\ \A n \in files \ files' :
                \E p \in Procs :
                    /\ op[p] = "delete" /\ arg[p] = n
                    /\ pc[p] = "del" /\ pc'[p] = "returned"]_vars

\* C18 witness: with caching disabled, a download has returned, a delete
\* has removed one of the files that were there at construction, and the
\* others are all there.
C18_Witness ==
    /\ cache = 0
    /\ \E p, q \in Procs :
        /\ op[p] = "delete" /\ pc[p] = "returned"
        /\ arg[p] \in StartFiles /\ arg[p] \notin files
        /\ files \ {loc[q]} = StartFiles \ {arg[p]}
        /\ isDownload(q) /\ pc[q] = "returned" /\ loc[q] \in files

\* C19: with caching enabled and no download directory, cleanUp ends at
\* exists: it does not call resolve, lists and marks nothing, calls no del
\* and cleanUpPromise is fulfilled; a downloadExtension call then goes on as
\* usual: it passes the await, finds no file, calls the gallery service, and
\* the file it downloads is in the directory, which exists from then on.
C19_AbsentRootEndsCleanUp ==
    [][(cache # 0 /\ rootStat = "absent") =>
          /\ cpc \in {"exists", "done"}
          /\ children = <<>> /\ toDelete = <<>> /\ dels = <<>> /\ files = {}
          /\ cpc' # cpc =>
                /\ cpc' = "done"
                /\ cleanUpPromise' = "fulfilled"
                /\ children' = <<>> /\ dels' = <<>>
                /\ rootStat' = rootStat /\ files' = files
          /\ \A p \in Procs :
                isDownload(p) =>
                    /\ (pc[p] = "await" /\ pc'[p] # pc[p])
                          => (cpc = "done" /\ pc'[p] = "exists")
                    /\ (pc[p] = "exists" /\ pc'[p] # pc[p])
                          => pc'[p] \in {"fetch", "failed"}
                    /\ (pc[p] = "fetch" /\ pc'[p] = "ret")
                          => (rootStat' = "dir" /\ files' = {loc[p]})]_vars

\* C19 witness: there is no directory, the clean-up is done with nothing
\* listed and no del called, one download has found no file and has called
\* the gallery service, and a second one has passed the await.
C19_Witness ==
    /\ cache # 0
    /\ rootStat = "absent"
    /\ cpc = "done"
    /\ cleanUpPromise = "fulfilled"
    /\ children = <<>>
    /\ dels = <<>>
    /\ \E p, q \in Procs :
        /\ isDownload(p) /\ pc[p] = "fetch" /\ fetches[p] = 1
        /\ isDownload(q) /\ pc[q] = "exists"

\* C20: what cleanUp marks are files of the listing, each marked once: a
\* name that does not parse, an older version and a newest version in excess
\* of the cache are never the same file, so del is called at most once for a
\* file; and while a del of the clean-up is pending its file is there, so
\* that no del fails because another del of the clean-up removed the file.
C20_EachFileMarkedOnce ==
    marked =>
        /\ \A i, j \in 1..Len(toDelete) : toDelete[i] = toDelete[j] => i = j
        /\ Range(toDelete) \subseteq Range(children)
        /\ Len(dels) = Len(toDelete)
        /\ \A i \in 1..Len(dels) : dels[i] = "pending" => toDelete[i] \in files

\* C20 witness: two versions of one extension and one of another are listed
\* with a cache of 1: the older version and the newest version of the first
\* extension are both marked, each once, and both dels have succeeded.
C20_Witness ==
    /\ marked
    /\ cache = 1
    /\ Range(children) = {a_b_1_9_0, a_b_1_10_0, e_f_1_0_0}
    /\ Len(toDelete) = 2
    /\ Range(toDelete) = {a_b_1_9_0, a_b_1_10_0}
    /\ allOk(dels)
    /\ files = {e_f_1_0_0}

=============================================================================
